---- MODULE Spec2Model ----
(***************************************************************************)
(* Model of the cache layer of llm-dynamic-site: CacheManager               *)
(* (src/app/cache.py), a get/set/delete/clear/get_stats facade over a       *)
(* Redis server (the primary) and an in-process dictionary (the fallback). *)
(*                                                                         *)
(* Strings that the code inspects character by character (cache keys) are  *)
(* sequences of one-character strings.  Cached values are opaque strings;  *)
(* the only thing the code looks at is their truthiness ("" is falsy).     *)
(* An Optional[x] is a sequence of length at most one: <<>> is None.       *)
(*                                                                         *)
(* Spec:     calls made directly on the facade, one at a time.             *)
(* SpecNorm: _normalize_key as a pure function of the raw key.             *)
(* SpecHttp: the handlers of src/app/main.py calling the facade.           *)
(* SpecConc: threads interleaved inside the fallback paths.                *)
(* SpecSweep: set calls for ten pages on a degraded facade.                *)
(***************************************************************************)
EXTENDS Integers, Sequences, FiniteSets, TLC

VARIABLES
    _use_redis,      \* self._use_redis: the health flag
    _redis_client,   \* self._redis_client: "None" or "client"
    _memory_cache,   \* self._memory_cache: normalized key -> [value, expiry]
    redis,           \* contents of the Redis server: normalized key -> [value, expiry]
    now,             \* the clock read by time.time() and by the server
    last,            \* history: the last event (a call as its caller saw it, or a tick)
    hist,            \* history: per normalized key, what the caller did to it last
    primaryFailed,   \* history: some call to the primary has raised
    request,         \* the HTTP request being handled: handler, position, locals
    tasks,           \* threads inside a call of the facade: position, locals
    insertions       \* history (SpecSweep): set calls that wrote the fallback store

vars == <<_use_redis, _redis_client, _memory_cache, redis, now, last, hist, primaryFailed,
          request, tasks, insertions>>

(***************************************************************************)
(* Bounds of the model.                                                    *)
(***************************************************************************)
MaxTime == 1          \* the clock runs over 0..MaxTime
MaxPathLen == 3       \* raw keys given to _normalize_key have 0..MaxPathLen characters
MaxInsertions == 10   \* SpecSweep: set calls made on the degraded facade

(***************************************************************************)
(* Program constants.                                                      *)
(***************************************************************************)
DEFAULT_CACHE_TTL == 3600
CleanupEvery == 10
MAX_KEY_LENGTH == 250     \* longest key the tests allow _normalize_key to return
LONG_KEY_LENGTH == 300    \* length of the run of "a" in the tests' very long key

None == <<>>
Some(x) == <<x>>

Prefix == <<"l", "l", "m", "_", "s", "i", "t", "e", ":">>
HomeKey == <<"h", "o", "m", "e">>

\* The calls the callers make.  Keys are URL paths; the page "/a/" is cached
\* with every value and ttl argument (omitted, or one second), the root page
\* "/" with one document for one second.
RawKeys == { <<"/">>, <<"/", "a", "/">> }
Values == {"", "x"}
TTLArgs == {None, Some(1)}
SetArgs ==
    {[key |-> <<"/", "a", "/">>, value |-> v, ttl |-> t] : v \in Values, t \in TTLArgs}
    \cup {[key |-> <<"/">>, value |-> "x", ttl |-> Some(1)]}
Drift == {0, 1}       \* seconds that pass between two clock readings of one call

(***************************************************************************)
(* str.strip('/'), str.replace('/', '_') and _normalize_key.               *)
(***************************************************************************)
RECURSIVE LStrip(_)
LStrip(s) == IF s /= <<>> /\ Head(s) = "/" THEN LStrip(Tail(s)) ELSE s

RECURSIVE RStrip(_)
RStrip(s) ==
    IF s /= <<>> /\ s[Len(s)] = "/" THEN RStrip(SubSeq(s, 1, Len(s) - 1)) ELSE s

\* Variant: only the leading separators are removed.
StripLeading(s) == LStrip(s)

Strip(s) == RStrip(LStrip(s))

Replace(s) == [i \in 1..Len(s) |-> IF s[i] = "/" THEN "_" ELSE s[i]]

_normalize_key(key) ==
    LET normalized == Replace(Strip(key))
    IN  IF normalized /= <<>> THEN Prefix \o normalized ELSE Prefix \o HomeKey

NormKeys == {_normalize_key(k) : k \in RawKeys}

(***************************************************************************)
(* Dictionaries.                                                           *)
(***************************************************************************)
EmptyDict == [k \in {} |-> 0]
\* Variant: a write that replaces the whole dictionary.
PutAlone(m, k, e) == [x \in {k} |-> e]

Put(m, k, e) == [x \in (DOMAIN m) \cup {k} |-> IF x = k THEN e ELSE m[x]]
\* Variant: a deletion that leaves the entry in place.
DelNothing(m, k) == m

Del(m, k) == [x \in (DOMAIN m) \ {k} |-> m[x]]

\* Python truthiness of an Optional[str]: None and "" are falsy.
Truthy(content) == content /= None /\ content /= Some("")

(***************************************************************************)
(* The Redis server: GET, SETEX, DEL, KEYS llm_site:*, and key expiry.     *)
(***************************************************************************)
RedisExpire(r, t) == [k \in {x \in DOMAIN r : t < r[x].expiry} |-> r[k]]
RedisGet(r, k, t) == IF k \in DOMAIN r /\ t < r[k].expiry THEN Some(r[k].value) ELSE None
RedisSetex(r, k, ttl, v, t) == Put(r, k, [value |-> v, expiry |-> t + ttl])
RedisDeleted(r, k, t) == IF RedisGet(r, k, t) /= None THEN 1 ELSE 0
RedisKeys(r, t) == {k \in DOMAIN r : t < r[k].expiry}

(***************************************************************************)
(* _cleanup_memory_cache at clock reading t.                               *)
(***************************************************************************)
\* Variant: an entry is removed only after its expiry time has passed.
_cleanup_memory_cache_late(mc, t) ==
    LET expired_keys == {k \in DOMAIN mc : t > mc[k].expiry}
    IN  [k \in (DOMAIN mc) \ expired_keys |-> mc[k]]

_cleanup_memory_cache(mc, t) ==
    LET expired_keys == {k \in DOMAIN mc : t >= mc[k].expiry}
    IN  [k \in (DOMAIN mc) \ expired_keys |-> mc[k]]

(***************************************************************************)
(* Outcomes of a call to the primary.  "skip": the health flag is false   *)
(* and no call is made.  "nack": redis.setex returned a falsy result.      *)
(* The two calls of clear (keys, then delete) can each raise.              *)
(***************************************************************************)
Raises(outcome) == outcome \in {"raise", "raise_keys", "raise_delete"}

\* Variant: a handler that catches nothing the primary raises.
ExceptNothing(outcome) == FALSE

\* `except Exception as e:` around every call to the primary: is the error handled?
ExceptException(outcome) == Raises(outcome)

\* Variant: the flag follows the outcome of the latest call, so that a call
\* that did not fail marks the primary healthy again.
FlagAfterReprobe(flag, outcome) == ~Raises(outcome)

\* The health flag after the try/except of get, set, delete and clear.
FlagAfter(flag, outcome) == IF Raises(outcome) THEN FALSE ELSE flag

\* The health flag after the try/except of get_stats: the handler only logs.
StatsFlagAfter(flag, outcome) == flag

\* Variant: the call is made whatever the health flag says.
OutcomesIgnoringFlag(flag, client, possible) ==
    IF client = "None" THEN {"raise"} ELSE possible

\* Calls to the primary made by one get, set or delete: the one call of its
\* try block, or none when the health flag is false.
PrimaryCalls(outcome) == IF outcome = "skip" THEN 0 ELSE 1

\* Outcomes a call can have: none is made while the health flag is false, and a
\* call through a missing client handle can only raise (AttributeError).
Outcomes(flag, client, possible) ==
    IF ~flag THEN {"skip"} ELSE IF client = "None" THEN {"raise"} ELSE possible

NoCall == [op |-> "init", key |-> <<>>, val |-> "", ttl |-> 0, t |-> 0,
           out |-> "skip", res |-> None, rem |-> FALSE, raised |-> FALSE]

(***************************************************************************)
(* CacheManager.__init__ and _initialize_redis.  probe: "ok", the import   *)
(* of the client library failed, or ping raised.                           *)
(***************************************************************************)
Probes == {"ok", "import_error", "ping_error"}

\* No HTTP request has been received; no thread is inside the facade.
NoRequest == [handler |-> "none", url_path |-> <<>>, step |-> "done", got |-> None,
              html |-> None, status |-> 0, body |-> None, generated |-> 0,
              stored |-> "none", before |-> {}]
NoTasks == <<>>

\* Variant: the flag is set as soon as the client object exists, before ping.
_initialize_redis_before_ping(probe) ==
    [client |-> IF probe = "import_error" THEN "None" ELSE "client",
     use    |-> probe /= "import_error"]

\* Variant: the flag is set before the client library is imported.
_initialize_redis_flag_first(probe) ==
    [client |-> IF probe = "import_error" THEN "None" ELSE "client",
     use    |-> probe /= "ping_error"]

_initialize_redis(probe) ==
    [client |-> IF probe = "import_error" THEN "None" ELSE "client",
     use    |-> probe = "ok"]

Init ==
    \E probe \in Probes :
        /\ _redis_client = _initialize_redis(probe).client
        /\ _use_redis = _initialize_redis(probe).use
        /\ _memory_cache = EmptyDict
        /\ redis = EmptyDict
        /\ now = 0
        /\ last = [NoCall EXCEPT !.out = probe]
        /\ hist = [k \in NormKeys |-> [st |-> "never", until |-> 0]]
        /\ primaryFailed = (probe = "ping_error")
        /\ request = NoRequest
        /\ tasks = NoTasks
        /\ insertions = 0

(***************************************************************************)
(* CacheManager.get                                                        *)
(***************************************************************************)
\* The primary path of get: the value returned when the read does not raise.
GetPrimaryResult(content) == IF Truthy(content) THEN content ELSE None

\* Variant: a miss in the primary goes on to the fallback store.
GetFallsThroughOnMiss(outcome, content) == outcome /= "ok" \/ ~Truthy(content)

\* Does get go on to the fallback store?  Not after a read that did not raise:
\* both branches of `if content:` return.
GetFallsThrough(outcome, content) == outcome /= "ok"

\* The fallback path of get: sweep at clock reading t1, then, if the key is
\* still there, the expiry test at a second clock reading t2 (read2).
GetMemory(mc, nk, t1, t2) ==
    LET mc1 == _cleanup_memory_cache(mc, t1)
    IN  IF nk \in DOMAIN mc1
        THEN IF t2 < mc1[nk].expiry
             THEN [res |-> Some(mc1[nk].value), mc |-> mc1, read2 |-> TRUE]
             ELSE [res |-> None, mc |-> Del(mc1, nk), read2 |-> TRUE]
        ELSE [res |-> None, mc |-> mc1, read2 |-> FALSE]

Get(key, outcome, d) ==
    LET nk == _normalize_key(key)
        escaped == Raises(outcome) /\ ~ExceptException(outcome)
        content == RedisGet(redis, nk, now)
        fall == GetFallsThrough(outcome, content)
        mem == GetMemory(_memory_cache, nk, now, now + d)
    IN  /\ outcome \in Outcomes(_use_redis, _redis_client, {"ok", "raise"})
        /\ now + d <= MaxTime
        /\ (~fall \/ escaped \/ ~mem.read2) => d = 0
        /\ now' = now + d
        /\ redis' = RedisExpire(redis, now')
        /\ primaryFailed' = (primaryFailed \/ Raises(outcome))
        /\ UNCHANGED <<_redis_client, hist>>
        /\ IF escaped
           THEN /\ UNCHANGED <<_use_redis, _memory_cache>>
                /\ last' = [NoCall EXCEPT !.op = "get", !.key = nk, !.t = now,
                                          !.out = outcome, !.raised = TRUE]
           ELSE /\ _use_redis' = FlagAfter(_use_redis, outcome)
                /\ _memory_cache' = IF fall THEN mem.mc ELSE _memory_cache
                /\ last' = [NoCall EXCEPT !.op = "get", !.key = nk, !.t = now,
                               !.out = outcome,
                               !.res = IF fall THEN mem.res ELSE GetPrimaryResult(content)]

(***************************************************************************)
(* CacheManager.set                                                        *)
(***************************************************************************)
CacheTTL(ttl) == IF ttl /= None THEN ttl[1] ELSE DEFAULT_CACHE_TTL

\* Variant: set reports whether the primary acknowledged the write.
SetResultAcknowledged(outcome) == outcome /= "nack"

\* The value set returns on its fallback path: `return True`.
SetResult(outcome) == TRUE

\* Does set return right after the primary write?
SetReturnsEarly(outcome) == outcome = "ok"

\* The fallback path of set: write at clock reading t1; when the size of the
\* dictionary is a multiple of CleanupEvery, sweep at a second reading t2.
SetSweeps(mc, nk) == Cardinality((DOMAIN mc) \cup {nk}) % CleanupEvery = 0

\* Variant: the ttl is stored as if it were the absolute expiry.
SetMemoryRelative(mc, nk, value, cache_ttl, t1, t2) ==
    LET mc1 == Put(mc, nk, [value |-> value, expiry |-> cache_ttl])
    IN  IF SetSweeps(mc, nk) THEN _cleanup_memory_cache(mc1, t2) ELSE mc1

SetMemory(mc, nk, value, cache_ttl, t1, t2) ==
    LET mc1 == Put(mc, nk, [value |-> value, expiry |-> t1 + cache_ttl])
    IN  IF SetSweeps(mc, nk) THEN _cleanup_memory_cache(mc1, t2) ELSE mc1

Set(key, value, ttl, outcome, d) ==
    LET nk == _normalize_key(key)
        cache_ttl == CacheTTL(ttl)
        escaped == Raises(outcome) /\ ~ExceptException(outcome)
        early == SetReturnsEarly(outcome)
    IN  /\ outcome \in Outcomes(_use_redis, _redis_client, {"ok", "nack", "raise"})
        /\ now + d <= MaxTime
        /\ (early \/ escaped \/ ~SetSweeps(_memory_cache, nk)) => d = 0
        /\ now' = now + d
        /\ redis' = RedisExpire(IF outcome = "ok"
                                THEN RedisSetex(redis, nk, cache_ttl, value, now)
                                ELSE redis, now')
        /\ primaryFailed' = (primaryFailed \/ Raises(outcome))
        /\ UNCHANGED _redis_client
        /\ IF escaped
           THEN /\ UNCHANGED <<_use_redis, _memory_cache, hist>>
                /\ last' = [NoCall EXCEPT !.op = "set", !.key = nk, !.val = value,
                               !.ttl = cache_ttl, !.t = now, !.out = outcome,
                               !.raised = TRUE]
           ELSE /\ _use_redis' = FlagAfter(_use_redis, outcome)
                /\ _memory_cache' =
                       IF early THEN _memory_cache
                       ELSE SetMemory(_memory_cache, nk, value, cache_ttl, now, now + d)
                /\ hist' = [hist EXCEPT ![nk] = [st |-> "set", until |-> now + cache_ttl]]
                /\ last' = [NoCall EXCEPT !.op = "set", !.key = nk, !.val = value,
                               !.ttl = cache_ttl, !.t = now, !.out = outcome,
                               !.res = IF early THEN TRUE ELSE SetResult(outcome)]

(***************************************************************************)
(* CacheManager.delete                                                     *)
(***************************************************************************)
\* `success` after a primary delete that did not raise and reported `deleted`.
DeletePrimarySuccess(deleted) == TRUE

Delete(key, outcome) ==
    LET nk == _normalize_key(key)
        escaped == Raises(outcome) /\ ~ExceptException(outcome)
        deleted == RedisDeleted(redis, nk, now)
        success1 == IF outcome = "ok" THEN DeletePrimarySuccess(deleted) ELSE FALSE
        inMemory == nk \in DOMAIN _memory_cache
    IN  /\ outcome \in Outcomes(_use_redis, _redis_client, {"ok", "raise"})
        /\ redis' = IF outcome = "ok" THEN Del(redis, nk) ELSE redis
        /\ primaryFailed' = (primaryFailed \/ Raises(outcome))
        /\ UNCHANGED <<_redis_client, now, hist>>
        /\ IF escaped
           THEN /\ UNCHANGED <<_use_redis, _memory_cache>>
                /\ last' = [NoCall EXCEPT !.op = "delete", !.key = nk, !.out = outcome,
                                          !.raised = TRUE]
           ELSE /\ _use_redis' = FlagAfter(_use_redis, outcome)
                /\ _memory_cache' = IF inMemory THEN Del(_memory_cache, nk)
                                                ELSE _memory_cache
                /\ last' = [NoCall EXCEPT !.op = "delete", !.key = nk, !.out = outcome,
                               !.res = (success1 \/ inMemory),
                               !.rem = ((outcome = "ok" /\ deleted > 0) \/ inMemory)]

(***************************************************************************)
(* CacheManager.clear                                                      *)
(***************************************************************************)
\* Variant: the fallback store is cleared only when the primary was not.
ClearedMemoryIfDegraded(mc, outcome) == IF outcome = "ok" THEN mc ELSE EmptyDict

\* The fallback store after clear: emptied whatever the primary did.
ClearedMemory(mc, outcome) == EmptyDict

Clear(outcome) ==
    LET escaped == Raises(outcome) /\ ~ExceptException(outcome)
        keys == RedisKeys(redis, now)
    IN  /\ outcome \in Outcomes(_use_redis, _redis_client,
                                {"ok", "raise_keys"} \cup
                                (IF keys /= {} THEN {"raise_delete"} ELSE {}))
        /\ redis' = IF outcome = "ok" THEN [k \in (DOMAIN redis) \ keys |-> redis[k]]
                                      ELSE redis
        /\ primaryFailed' = (primaryFailed \/ Raises(outcome))
        /\ UNCHANGED <<_redis_client, now>>
        /\ IF escaped
           THEN /\ UNCHANGED <<_use_redis, _memory_cache, hist>>
                /\ last' = [NoCall EXCEPT !.op = "clear", !.out = outcome,
                                          !.raised = TRUE]
           ELSE /\ _use_redis' = FlagAfter(_use_redis, outcome)
                /\ _memory_cache' = ClearedMemory(_memory_cache, outcome)
                /\ hist' = [k \in NormKeys |->
                               IF hist[k].st = "never" THEN hist[k]
                               ELSE [st |-> "cleared", until |-> 0]]
                /\ last' = [NoCall EXCEPT !.op = "clear", !.out = outcome, !.res = TRUE]

(***************************************************************************)
(* CacheManager.get_stats                                                  *)
(***************************************************************************)
\* Variant: the backend field reports whether this call reached the primary.
StatsReportByOutcome(flag, mc, outcome) ==
    [backend            |-> IF outcome = "ok" THEN "redis" ELSE "memory",
     redis_connected    |-> flag,
     memory_cache_size  |-> Cardinality(DOMAIN mc),
     redis_memory_used  |-> outcome = "ok",
     redis_stats_error  |-> Raises(outcome)]

StatsReport(flag, mc, outcome) ==
    [backend            |-> IF flag THEN "redis" ELSE "memory",
     redis_connected    |-> flag,
     memory_cache_size  |-> Cardinality(DOMAIN mc),
     redis_memory_used  |-> outcome = "ok",      \* the three enrichment fields
     redis_stats_error  |-> Raises(outcome)]     \* the error field

Stats(outcome) ==
    LET escaped == Raises(outcome) /\ ~ExceptException(outcome)
    IN  /\ outcome \in Outcomes(_use_redis, _redis_client, {"ok", "raise"})
        /\ primaryFailed' = (primaryFailed \/ Raises(outcome))
        /\ UNCHANGED <<_redis_client, _memory_cache, redis, now, hist>>
        /\ IF escaped
           THEN /\ UNCHANGED _use_redis
                /\ last' = [NoCall EXCEPT !.op = "stats", !.out = outcome,
                                          !.raised = TRUE]
           ELSE /\ _use_redis' = StatsFlagAfter(_use_redis, outcome)
                /\ last' = [NoCall EXCEPT !.op = "stats", !.out = outcome,
                               !.res = StatsReport(_use_redis, _memory_cache, outcome)]

(***************************************************************************)
(* The clock.                                                              *)
(***************************************************************************)
Tick ==
    /\ now < MaxTime
    /\ now' = now + 1
    /\ redis' = RedisExpire(redis, now')
    /\ last' = [NoCall EXCEPT !.op = "tick"]
    /\ UNCHANGED <<_use_redis, _redis_client, _memory_cache, hist, primaryFailed>>

\* The calls of Spec are made directly on the facade, one at a time.
Direct == UNCHANGED <<request, tasks, insertions>>

Next ==
    \/ \E key \in RawKeys, outcome \in {"skip", "ok", "raise"}, d \in Drift :
           Get(key, outcome, d) /\ Direct
    \/ \E a \in SetArgs, outcome \in {"skip", "ok", "nack", "raise"}, d \in Drift :
           Set(a.key, a.value, a.ttl, outcome, d) /\ Direct
    \/ \E key \in RawKeys, outcome \in {"skip", "ok", "raise"} :
           Delete(key, outcome) /\ Direct
    \/ \E outcome \in {"skip", "ok", "raise_keys", "raise_delete"} :
           Clear(outcome) /\ Direct
    \/ \E outcome \in {"skip", "ok", "raise"} : Stats(outcome) /\ Direct
    \/ Tick /\ Direct

Spec == Init /\ [][Next]_vars

(***************************************************************************)
(* Properties.  A call is "the last event" in the state it returns in; the *)
(* step that takes it is the step to a state whose last.op names it.       *)
(***************************************************************************)
Entry(v, e) == [value |-> v, expiry |-> e]
Ops == {"get", "set", "delete", "clear", "stats"}

\* C1: round trip: set(k, v, t) followed immediately by get(k) returns v, for
\* every value (the empty string too), in both states of the facade and for
\* every outcome of the primary calls involved.
C1_RoundTrip ==
    [][(last.op = "set" /\ last'.op = "get" /\ last'.key = last.key /\ now' = now)
         => (~last'.raised /\ last'.res = Some(last.val))]_vars

C3_Failover ==
    [][(primaryFailed /\ last'.op \in {"get", "set"})
         => /\ last'.out = "skip"
            /\ ~last'.raised
            /\ (last.op = "set" /\ last'.op = "get" /\ last'.key = last.key /\ now' = now)
                   => last'.res = Some(last.val)]_vars

\* C4: one-way degradation: once the health flag is false, no step of get,
\* set, delete, clear or get_stats makes it true again.
C4_OneWay == [][~_use_redis => ~_use_redis']_vars

C4_Witness ==
    ~_use_redis /\ primaryFailed /\ last.op \in Ops /\ last.out = "skip"

\* C5: whenever a primary call made by get, set, delete, clear or get_stats
\* raises, the health flag is false when the operation returns.
C5_DegradeOnError ==
    (last.op \in Ops /\ Raises(last.out)) => ~_use_redis

\* C6: no call raises to its caller, whatever the primary does.
C6_NeverRaises == ~last.raised

C6_Witness ==
    last.op = "clear" /\ last.out = "raise_delete" /\ ~last.raised /\ last.res = TRUE

\* C7: authoritative miss: a get whose primary read succeeds with no value
\* returns absent, leaves the fallback store untouched and the health flag
\* true, even if the fallback store holds a live entry for the key.
C7_AuthoritativeMiss ==
    [][(last'.op = "get" /\ last'.out = "ok" /\ RedisGet(redis, last'.key, now) = None)
         => /\ last'.res = None
            /\ ~last'.raised
            /\ _memory_cache' = _memory_cache
            /\ _use_redis /\ _use_redis']_vars

C7_Witness ==
    /\ last.op = "get" /\ last.out = "ok" /\ last.res = None /\ _use_redis
    /\ last.key \notin DOMAIN redis
    /\ last.key \in DOMAIN _memory_cache
    /\ now < _memory_cache[last.key].expiry

\* C8: expiry: a get served by the fallback store never returns the value of
\* an entry whose expiry is at or before the current time; and once the clock
\* is ttl or more past the last set of a key, get of that key returns absent.
C8_Expiry ==
    (last.op = "get" /\ ~last.raised)
        => /\ (last.out /= "ok" /\ last.res /= None)
                  => /\ last.key \in DOMAIN _memory_cache
                     /\ last.res = Some(_memory_cache[last.key].value)
                     /\ now < _memory_cache[last.key].expiry
           /\ (hist[last.key].st = "set" /\ last.t >= hist[last.key].until)
                  => last.res = None

\* C9: delete returns true exactly when the primary or the fallback store
\* reports that an entry was removed.
C9_DeleteReportsRemoval ==
    (last.op = "delete" /\ ~last.raised) => (last.res <=> last.rem)

\* C10: clear returns true in every case, and after it get(k) returns absent
\* for every previously set key k until k is set again.
C10_Clear ==
    /\ last.op = "clear" => (~last.raised /\ last.res = TRUE)
    /\ (last.op = "get" /\ hist[last.key].st = "cleared")
           => (~last.raised /\ last.res = None)
    /\ last.op = "clear" => _memory_cache = EmptyDict
    /\ (last.op = "clear" /\ last.out = "ok") => RedisKeys(redis, now) = {}

C10_Witness ==
    /\ last.op = "get" /\ hist[last.key].st = "cleared" /\ last.res = None
    /\ last.out = "raise"

\* C12: get_stats always returns a report with the active backend, the health
\* flag and the size of the fallback store; the backend is the primary exactly
\* when the flag is true, the size is the number of entries in the fallback
\* store, and a failure to fetch the primary's metrics is a field of the
\* report, not an exception.
C12_Stats ==
    last.op = "stats"
        => /\ ~last.raised
           /\ (last.res.backend = "redis") <=> _use_redis
           /\ last.res.backend \in {"redis", "memory"}
           /\ last.res.redis_connected = _use_redis
           /\ last.res.memory_cache_size = Cardinality(DOMAIN _memory_cache)
           /\ Raises(last.out) => last.res.redis_stats_error
           /\ last.res.redis_memory_used <=> (last.out = "ok")

C12_Witness ==
    /\ last.op = "stats" /\ last.out = "raise" /\ last.res.redis_stats_error
    /\ last.res.memory_cache_size = 2

\* C13: construction probes the primary once; the facade starts with the
\* health flag true exactly when the probe succeeded, construction does not
\* raise when it failed, and the fallback store starts empty.
C13_InitialState ==
    last.op = "init"
        => /\ _use_redis <=> (last.out = "ok")
           /\ ~last.raised
           /\ _memory_cache = EmptyDict
           /\ _use_redis => _redis_client = "client"

C13_Witness == last.op = "init" /\ last.out = "ping_error" /\ ~_use_redis

(***************************************************************************)
(* _normalize_key as a pure function of its argument.  The raw keys are    *)
(* all strings of at most MaxPathLen characters over a separator, a        *)
(* letter, a blank and an underscore, the very long key of the tests, and  *)
(* the URL paths of a few pages as serve_page builds them.                 *)
(* A key is normalized, and then the result is normalized once more.       *)
(***************************************************************************)
\* url_path as the two handlers of src/app/main.py build it from their parameter.
ServeUrlPath(path) ==
    IF path /= <<>> THEN <<"/">> \o Strip(path) \o <<"/">> ELSE <<"/">>

RebuildUrlPath(url) ==
    IF Strip(url) /= <<>> THEN <<"/">> \o Strip(url) \o <<"/">> ELSE <<"/">>

\* Pages requested from serve_page: /, /a/, /a/b/ and /a_b/.
PagePaths == {<<>>, <<"a">>, <<"a", "/", "b">>, <<"a", "_", "b">>}
UrlPaths == {ServeUrlPath(path) : path \in PagePaths}

Alphabet == {"/", "a", " ", "_"}
Whitespace == {" "}
ShortKeys == UNION {[1..n -> Alphabet] : n \in 0..MaxPathLen}
long_key == <<"/">> \o [i \in 1..LONG_KEY_LENGTH |-> "a"]
NormInputs == ShortKeys \cup {long_key} \cup UrlPaths
LongKeyMarker == Prefix \o <<"l", "o", "n", "g", "_", "k", "e", "y", "_">>

StartsWith(s, p) == Len(s) >= Len(p) /\ SubSeq(s, 1, Len(p)) = p

FacadeIdle ==
    /\ _redis_client = _initialize_redis("ok").client
    /\ _use_redis = _initialize_redis("ok").use
    /\ _memory_cache = EmptyDict
    /\ redis = EmptyDict
    /\ now = 0
    /\ hist = [k \in NormKeys |-> [st |-> "never", until |-> 0]]
    /\ primaryFailed = FALSE
    /\ request = NoRequest
    /\ tasks = NoTasks
    /\ insertions = 0

FacadeUnchanged ==
    UNCHANGED <<_use_redis, _redis_client, _memory_cache, redis, now, hist, primaryFailed,
                request, tasks, insertions>>

InitNorm ==
    \E key \in NormInputs :
        /\ FacadeIdle
        /\ last = [NoCall EXCEPT !.op = "key", !.key = key]

Normalize ==
    /\ last.op = "key"
    /\ last' = [last EXCEPT !.op = "normalize", !.res = _normalize_key(last.key)]
    /\ FacadeUnchanged

Renormalize ==
    /\ last.op = "normalize"
    /\ last' = [last EXCEPT !.op = "renormalize", !.key = last.res,
                            !.res = _normalize_key(last.res)]
    /\ FacadeUnchanged

NextNorm == Normalize \/ Renormalize

SpecNorm == InitNorm /\ [][NextNorm]_vars

Normalized == last.op \in {"normalize", "renormalize"}

\* C15: a key whose prefixed form would be longer than MAX_KEY_LENGTH is
\* normalized to at most MAX_KEY_LENGTH characters that begin with
\* "llm_site:long_key_".
C15_LongKeyCollapse ==
    (Normalized /\ Len(Prefix) + Len(Strip(last.key)) > MAX_KEY_LENGTH)
        => /\ Len(last.res) <= MAX_KEY_LENGTH
           /\ StartsWith(last.res, LongKeyMarker)

\* C16: after the prefix a normalized key contains neither whitespace nor a
\* path separator: each of them has been replaced by an underscore.
C16_NoWhitespace ==
    Normalized
        => \A i \in (Len(Prefix) + 1)..Len(last.res) :
               last.res[i] \notin Whitespace \cup {"/"}

C18_Idempotent == last.op = "renormalize" => last.res = last.key

(***************************************************************************)
(* The HTTP layer (src/app/main.py): serve_page, rebuild_page and          *)
(* flush_cache call the one CacheManager of the process and the page       *)
(* generator.  The handlers are coroutines without an await and the calls  *)
(* they make are synchronous, so a request is handled to its end before    *)
(* the next one starts; the clock may advance while it is handled.         *)
(***************************************************************************)
Paths == {<<>>, <<"a">>}              \* serve_page: GET / and GET /a/
Urls == {<<"/">>, <<"a">>}            \* rebuild_page: POST /rebuild?url=...
Documents == {"x", "y"}               \* documents that pass validate_html
GeneratorResults == {None} \cup {Some(doc) : doc \in Documents}

CacheManagerMethods == {"get", "set", "delete", "clear", "get_stats"}

\* Values held for a key by either store.
CachedValues(nk) ==
    {redis[k].value : k \in {nk} \cap DOMAIN redis}
        \cup {_memory_cache[k].value : k \in {nk} \cap DOMAIN _memory_cache}

\* Variant: the cached document is never used.
ServeHitNever(cached_html) == FALSE

\* `if cached_html:` in serve_page
ServeHit(cached_html) == Truthy(cached_html)

\* serve_page up to the cache lookup: a hit is the response.
ServeGet(path, outcome, d) ==
    LET url_path == ServeUrlPath(path)
        req == [NoRequest EXCEPT !.handler = "serve", !.url_path = url_path]
    IN  /\ request.step = "done"
        /\ Get(url_path, outcome, d)
        /\ request' =
               IF last'.raised THEN [req EXCEPT !.status = 500]
               ELSE IF ServeHit(last'.res)
               THEN [req EXCEPT !.got = last'.res, !.status = 200, !.body = last'.res]
               ELSE [req EXCEPT !.got = last'.res, !.step = "generate"]
        /\ UNCHANGED <<tasks, insertions>>

\* rebuild_page up to the invalidation.
RebuildDelete(url, outcome) ==
    LET url_path == RebuildUrlPath(url)
        req == [NoRequest EXCEPT !.handler = "rebuild", !.url_path = url_path,
                                 !.before = CachedValues(_normalize_key(url_path))]
    IN  /\ request.step = "done"
        /\ Delete(url_path, outcome)
        /\ request' = IF last'.raised THEN [req EXCEPT !.status = 500]
                                      ELSE [req EXCEPT !.step = "generate"]
        /\ UNCHANGED <<tasks, insertions>>

\* site_generator.generate_page(url_path) in both handlers: a document, or
\* None; `if not html` answers 503.
\* Variant: a request without a document is answered 200 with an empty body.
AfterGenerateEmpty(req, html) ==
    IF html = None
    THEN [req EXCEPT !.step = "done", !.status = 200, !.generated = 1]
    ELSE [req EXCEPT !.step = "store", !.html = html, !.generated = 1]

AfterGenerate(req, html) ==
    IF html = None
    THEN [req EXCEPT !.step = "done", !.status = 503, !.generated = 1]
    ELSE [req EXCEPT !.step = "store", !.html = html, !.generated = 1]

Generate(html) ==
    /\ request.step = "generate"
    /\ request' = AfterGenerate(request, html)
    /\ UNCHANGED <<_use_redis, _redis_client, _memory_cache, redis, now, last, hist,
                   primaryFailed, tasks, insertions>>

\* cache_manager.set(url_path, html) in both handlers, and the response.
Store(outcome, d) ==
    /\ request.step = "store"
    /\ Set(request.url_path, request.html[1], None, outcome, d)
    /\ request' = [request EXCEPT
                       !.step = "done",
                       !.status = IF last'.raised THEN 500 ELSE 200,
                       !.body = IF request.handler = "serve" /\ ~last'.raised
                                THEN request.html ELSE None,
                       !.stored = outcome]
    /\ UNCHANGED <<tasks, insertions>>

\* flush_cache calls cache_manager.flush_all(), which CacheManager does not
\* define: the AttributeError is caught by `except Exception` and answered 500.
FlushCache ==
    /\ request.step = "done"
    /\ "flush_all" \notin CacheManagerMethods
    /\ request' = [NoRequest EXCEPT !.handler = "flush", !.status = 500]
    /\ UNCHANGED <<_use_redis, _redis_client, _memory_cache, redis, now, last, hist,
                   primaryFailed, tasks, insertions>>

NextHttp ==
    \/ \E path \in Paths, outcome \in {"skip", "ok", "raise"}, d \in Drift :
           ServeGet(path, outcome, d)
    \/ \E url \in Urls, outcome \in {"skip", "ok", "raise"} : RebuildDelete(url, outcome)
    \/ \E html \in GeneratorResults : Generate(html)
    \/ \E outcome \in {"skip", "ok", "nack", "raise"}, d \in Drift : Store(outcome, d)
    \/ FlushCache
    \/ Tick /\ UNCHANGED <<request, tasks, insertions>>

SpecHttp == Init /\ [][NextHttp]_vars

\* C14: serve_page answers from the cache without calling the generator when
\* get yields content; otherwise it calls the generator once and stores the
\* document with set, and the next request for the same page is then a cache
\* hit with that document and without a call of the generator, provided no
\* delete, clear, expiry or failure of the primary (a call that raised or a
\* write that was not acknowledged) came in between.
C14_CacheFirst ==
    [][/\ (request'.handler = "serve" /\ request' /= request /\ request'.step = "done")
            => /\ ServeHit(request'.got)
                    => /\ request'.generated = 0
                       /\ request'.status = 200
                       /\ request'.body = request'.got
               /\ ~ServeHit(request'.got) => request'.generated = 1
               /\ (request'.generated = 1 /\ request'.status = 200)
                    => /\ last'.op = "set"
                       /\ last'.key = _normalize_key(request'.url_path)
                       /\ Some(last'.val) = request'.html
                       /\ request'.body = request'.html
       /\ (/\ request.handler = "serve" /\ request.step = "done"
           /\ request.status = 200 /\ request.generated = 1
           /\ request.stored /= "nack"
           /\ request'.handler = "serve" /\ request' /= request
           /\ request'.url_path = request.url_path
           /\ ~Raises(last'.out)
           /\ now' < hist[_normalize_key(request.url_path)].until)
            => /\ request'.step = "done"
               /\ request'.status = 200
               /\ request'.generated = 0
               /\ request'.body = request.html]_vars

C14_Witness ==
    /\ request.handler = "serve" /\ request.step = "done" /\ request.status = 200
    /\ request.generated = 0 /\ request.body = Some("y")
    /\ last.op = "get" /\ last.out = "ok"

\* C19: after POST /api/cache/flush the response reports success and no
\* page that was cached before is returned by get: both stores are empty.
C19_Flush ==
    request.handler = "flush"
        => /\ request.status = 200
           /\ _memory_cache = EmptyDict
           /\ _use_redis => RedisKeys(redis, now) = {}

\* C20: the get that follows a handled rebuild of a page does not return the
\* content cached before the rebuild: it returns the new document when the
\* rebuild succeeded, and nothing when the generator failed (503).
C20_Rebuild ==
    [][(/\ request.handler = "rebuild" /\ request.step = "done"
        /\ request.status \in {200, 503}
        /\ last'.op = "get"
        /\ last'.key = _normalize_key(request.url_path))
            => /\ (last'.res /= None /\ last'.res[1] \in request.before)
                    => last'.res = request.html
               /\ IF request.status = 200 THEN last'.res = request.html
                                          ELSE last'.res = None]_vars

(***************************************************************************)
(* Threads calling one degraded facade (health flag false: every call goes *)
(* to the fallback store).  CacheManager takes no lock, so a thread can be *)
(* preempted between any two statements of the fallback paths of get, set, *)
(* delete and clear and of _cleanup_memory_cache; each statement is one    *)
(* step.  The scan of the sweep (one list comprehension) and its loop of   *)
(* deletions are taken as one step each.  A KeyError is not caught on      *)
(* these paths and ends the call.                                          *)
(***************************************************************************)
Threads == {1, 2}

IdleTask == [op |-> "none", pc |-> "idle", key |-> <<>>, expired_keys |-> {},
             content |-> None, expiry |-> 0, res |-> None, raised |-> FALSE]

InitConc ==
    /\ _redis_client = _initialize_redis("ping_error").client
    /\ _use_redis = _initialize_redis("ping_error").use
    /\ _memory_cache = EmptyDict
    /\ redis = EmptyDict
    /\ now = 0
    /\ last = [NoCall EXCEPT !.out = "ping_error"]
    /\ hist = [k \in NormKeys |-> [st |-> "never", until |-> 0]]
    /\ primaryFailed = TRUE
    /\ request = NoRequest
    /\ tasks = [t \in Threads |-> IdleTask]
    /\ insertions = 0

ConcUnchanged ==
    UNCHANGED <<_use_redis, _redis_client, redis, now, last, hist, primaryFailed, request,
                insertions>>

Call(op, pc, key) == [IdleTask EXCEPT !.op = op, !.pc = pc, !.key = _normalize_key(key)]
Return(task, res) == [task EXCEPT !.pc = "idle", !.res = res]
KeyError(task) == [task EXCEPT !.pc = "idle", !.raised = TRUE]

\* get: the flag is false, the call goes on to self._cleanup_memory_cache()
GetBegin(t, key) ==
    /\ ~_use_redis
    /\ tasks[t].pc = "idle"
    /\ tasks' = [tasks EXCEPT ![t] = Call("get", "sweep_scan", key)]
    /\ UNCHANGED _memory_cache
    /\ ConcUnchanged

\* expired_keys = [key for key, (_, expiry) in ... if current_time >= expiry]
SweepScan(t) ==
    /\ tasks[t].pc = "sweep_scan"
    /\ tasks' = [tasks EXCEPT ![t] =
                    [@ EXCEPT !.pc = "sweep_del",
                              !.expired_keys = {k \in DOMAIN _memory_cache :
                                                   now >= _memory_cache[k].expiry}]]
    /\ UNCHANGED _memory_cache
    /\ ConcUnchanged

\* for key in expired_keys: del self._memory_cache[key]
SweepDelete(t) ==
    LET task == tasks[t]
        present == task.expired_keys \cap DOMAIN _memory_cache
    IN  /\ task.pc = "sweep_del"
        /\ IF task.expired_keys \subseteq DOMAIN _memory_cache
           THEN /\ _memory_cache' = [k \in (DOMAIN _memory_cache) \ present |->
                                        _memory_cache[k]]
                /\ tasks' = [tasks EXCEPT ![t] =
                                IF task.op = "get" THEN [task EXCEPT !.pc = "get_check"]
                                                   ELSE Return(task, Some(TRUE))]
           ELSE /\ \E done \in SUBSET present :
                       _memory_cache' = [k \in (DOMAIN _memory_cache) \ done |->
                                            _memory_cache[k]]
                /\ tasks' = [tasks EXCEPT ![t] = KeyError(task)]
        /\ ConcUnchanged

\* if normalized_key in self._memory_cache:
GetCheck(t) ==
    LET task == tasks[t]
    IN  /\ task.pc = "get_check"
        /\ tasks' = [tasks EXCEPT ![t] =
                        IF task.key \in DOMAIN _memory_cache
                        THEN [task EXCEPT !.pc = "get_read"]
                        ELSE Return(task, None)]
        /\ UNCHANGED _memory_cache
        /\ ConcUnchanged

\* content, expiry = self._memory_cache[normalized_key]
GetRead(t) ==
    LET task == tasks[t]
    IN  /\ task.pc = "get_read"
        /\ tasks' = [tasks EXCEPT ![t] =
                        IF task.key \in DOMAIN _memory_cache
                        THEN [task EXCEPT !.pc = "get_expiry",
                                          !.content = Some(_memory_cache[task.key].value),
                                          !.expiry = _memory_cache[task.key].expiry]
                        ELSE KeyError(task)]
        /\ UNCHANGED _memory_cache
        /\ ConcUnchanged

\* if time.time() < expiry: return content
GetExpiry(t) ==
    LET task == tasks[t]
    IN  /\ task.pc = "get_expiry"
        /\ tasks' = [tasks EXCEPT ![t] =
                        IF now < task.expiry THEN Return(task, task.content)
                                             ELSE [task EXCEPT !.pc = "get_del"]]
        /\ UNCHANGED _memory_cache
        /\ ConcUnchanged

\* else: del self._memory_cache[normalized_key]; return None
GetDelete(t) ==
    LET task == tasks[t]
    IN  /\ task.pc = "get_del"
        /\ IF task.key \in DOMAIN _memory_cache
           THEN /\ _memory_cache' = Del(_memory_cache, task.key)
                /\ tasks' = [tasks EXCEPT ![t] = Return(task, None)]
           ELSE /\ UNCHANGED _memory_cache
                /\ tasks' = [tasks EXCEPT ![t] = KeyError(task)]
        /\ ConcUnchanged

\* set: self._memory_cache[normalized_key] = (value, time.time() + cache_ttl),
\* then the sweep when the size is a multiple of CleanupEvery
SetWrite(t, key, value, ttl) ==
    LET task == Call("set", "idle", key)
    IN  /\ ~_use_redis
        /\ tasks[t].pc = "idle"
        /\ _memory_cache' = Put(_memory_cache, task.key,
                                [value |-> value, expiry |-> now + CacheTTL(ttl)])
        /\ tasks' = [tasks EXCEPT ![t] =
                        IF SetSweeps(_memory_cache, task.key)
                        THEN [task EXCEPT !.pc = "sweep_scan"]
                        ELSE Return(task, Some(TRUE))]
        /\ ConcUnchanged

\* delete: if normalized_key in self._memory_cache:
DeleteCheck(t, key) ==
    LET task == Call("delete", "idle", key)
    IN  /\ ~_use_redis
        /\ tasks[t].pc = "idle"
        /\ tasks' = [tasks EXCEPT ![t] =
                        IF task.key \in DOMAIN _memory_cache
                        THEN [task EXCEPT !.pc = "delete_del"]
                        ELSE Return(task, Some(FALSE))]
        /\ UNCHANGED _memory_cache
        /\ ConcUnchanged

\* del self._memory_cache[normalized_key]; success = True
DeleteDelete(t) ==
    LET task == tasks[t]
    IN  /\ task.pc = "delete_del"
        /\ IF task.key \in DOMAIN _memory_cache
           THEN /\ _memory_cache' = Del(_memory_cache, task.key)
                /\ tasks' = [tasks EXCEPT ![t] = Return(task, Some(TRUE))]
           ELSE /\ UNCHANGED _memory_cache
                /\ tasks' = [tasks EXCEPT ![t] = KeyError(task)]
        /\ ConcUnchanged

\* clear: self._memory_cache.clear()
ClearMemory(t) ==
    /\ ~_use_redis
    /\ tasks[t].pc = "idle"
    /\ _memory_cache' = ClearedMemory(_memory_cache, "skip")
    /\ tasks' = [tasks EXCEPT ![t] = Return([IdleTask EXCEPT !.op = "clear"], Some(TRUE))]
    /\ ConcUnchanged

NextConc ==
    \/ \E t \in Threads, key \in RawKeys : GetBegin(t, key)
    \/ \E t \in Threads : SweepScan(t)
    \/ \E t \in Threads : SweepDelete(t)
    \/ \E t \in Threads : GetCheck(t)
    \/ \E t \in Threads : GetRead(t)
    \/ \E t \in Threads : GetExpiry(t)
    \/ \E t \in Threads : GetDelete(t)
    \/ \E t \in Threads, key \in RawKeys : SetWrite(t, key, "x", Some(1))
    \/ \E t \in Threads, key \in RawKeys : DeleteCheck(t, key)
    \/ \E t \in Threads : DeleteDelete(t)
    \/ \E t \in Threads : ClearMemory(t)
    \/ Tick /\ UNCHANGED <<request, tasks, insertions>>

SpecConc == InitConc /\ [][NextConc]_vars

\* C11: the fallback store is accessed under mutual exclusion: whatever the
\* interleaving of get, set, delete and clear calls of several threads, with
\* their sweeps, no call ends in a fault because another thread removed the
\* key between its test and its access, and no entry written by a completed
\* set is removed by a get or a sweep before it has expired.
C11_Serialized ==
    [][\A t \in Threads :
           /\ ~tasks'[t].raised
           /\ (tasks[t].pc \in {"get_del", "sweep_del"} /\ tasks'[t] /= tasks[t])
                => \A k \in (DOMAIN _memory_cache) \ DOMAIN _memory_cache' :
                       now >= _memory_cache[k].expiry]_vars

\* The entries of a store that have not expired at time t.
Live(store, t) == [k \in {x \in DOMAIN store : t < store[x].expiry} |-> store[k]]

C23_LazyPurge ==
    (last.op = "get" /\ last.out \in {"skip", "raise"} /\ ~last.raised)
        => \A k \in DOMAIN _memory_cache : _memory_cache[k].expiry > last.t

C23_Witness ==
    /\ last.op = "get" /\ last.out = "skip" /\ last.t = 1
    /\ ~primaryFailed
    /\ \E k \in NormKeys \ {last.key} :
           /\ hist[k].st = "set" /\ hist[k].until = 1
           /\ k \notin DOMAIN _memory_cache
    /\ last.key \in DOMAIN _memory_cache

\* C25: after delete(k) has returned the fallback store has no entry for
\* normalize(k); when the primary delete raised, the health flag is false
\* and the result is true exactly when the fallback store held an entry.
C25_DeleteFallback ==
    (last.op = "delete" /\ ~last.raised)
        => /\ last.key \notin DOMAIN _memory_cache
           /\ Raises(last.out) => (~_use_redis /\ (last.res <=> last.rem))

C25_Witness ==
    /\ last.op = "delete" /\ last.out = "raise" /\ last.res = TRUE
    /\ DOMAIN redis /= {}

\* C26: set returns true on every call, whether the primary acknowledged
\* the write, was skipped, raised, or did not acknowledge; a write that was
\* not acknowledged leaves the health flag true.
C26_SetTrue ==
    (last.op = "set" /\ ~last.raised)
        => /\ last.res = TRUE
           /\ last.out = "nack" => _use_redis

C26_Witness ==
    /\ last.op = "set" /\ last.out = "nack" /\ _use_redis
    /\ last.key \in DOMAIN _memory_cache

C29_FlagImpliesClient ==
    /\ [](/\ _use_redis => _redis_client = "client"
          /\ (last.op = "init" /\ _use_redis) => last.out = "ok"
          /\ (last.op \in Ops /\ last.out /= "skip") => _redis_client = "client")
    /\ [][_use_redis' => _use_redis]_vars

C29_Witness ==
    /\ _use_redis /\ _redis_client = "client"
    /\ last.op = "get" /\ last.out = "ok" /\ last.res /= None

\* C28: two different URL paths built by the HTTP layer never have the
\* same normalized key.
C28_NoCollision ==
    (Normalized /\ last.key \in UrlPaths)
        => \A url_path \in UrlPaths \ {last.key} : _normalize_key(url_path) /= last.res

(***************************************************************************)
(* The periodic sweep of set.  A degraded facade (every set writes the     *)
(* fallback store) is given set calls for ten pages, in any order and with *)
(* repetitions, and delete calls for one of them; no time passes.          *)
(* insertions counts the set calls.                                        *)
(***************************************************************************)
SweepPages == {"0", "1", "2", "3", "4", "5", "6", "7", "8", "9"}
SweepKeys == {<<"/", page, "/">> : page \in SweepPages}

InitSweep ==
    /\ _redis_client = _initialize_redis("ping_error").client
    /\ _use_redis = _initialize_redis("ping_error").use
    /\ _memory_cache = EmptyDict
    /\ redis = EmptyDict
    /\ now = 0
    /\ last = [NoCall EXCEPT !.out = "ping_error"]
    /\ hist = [k \in {_normalize_key(key) : key \in SweepKeys} |->
                  [st |-> "never", until |-> 0]]
    /\ primaryFailed = TRUE
    /\ request = NoRequest
    /\ tasks = NoTasks
    /\ insertions = 0

InsertSet(key) ==
    /\ insertions < MaxInsertions
    /\ Set(key, "x", None, "skip", 0)
    /\ insertions' = insertions + 1
    /\ UNCHANGED <<request, tasks>>

InsertDelete(key) ==
    /\ Delete(key, "skip")
    /\ UNCHANGED <<request, tasks, insertions>>

NextSweep ==
    \/ \E key \in SweepKeys : InsertSet(key)
    \/ InsertDelete(<<"/", "0", "/">>)

SpecSweep == InitSweep /\ [][NextSweep]_vars

\* C24: the sweep of set runs on every tenth set call that writes the
\* fallback store and on no other, whatever overwrites and deletes came in
\* between.
C24_EveryTenthInsertion ==
    [][(last'.op = "set" /\ insertions' = insertions + 1)
            => (SetSweeps(_memory_cache, last'.key)
                    <=> insertions' % CleanupEvery = 0)]_vars

====
